---- MODULE Spec2Model ----
(***************************************************************************)
(* Model of the video-generator backend: the render pipeline of            *)
(* VideoGenerator (services/video/generator.py), the template catalog      *)
(* (services/video/templates.py), the image list the scraper hands over    *)
(* (services/scraping/scraper.py) and the job table with its background    *)
(* task (api/v1/endpoints/video.py).                                       *)
(*                                                                         *)
(* Times are exact rationals, held as integers in units of 1/Scale second. *)
(* Python computes them in binary floating point; the model states the     *)
(* arithmetic the code writes down, without the rounding of the last bit.  *)
(* Strings that the code inspects (headline, bullets, call to action) are  *)
(* sequences of one-character strings.                                     *)
(***************************************************************************)
EXTENDS Integers, Sequences, FiniteSets, TLC

VARIABLES
    video_status,     \* endpoints/video.py: the process-wide job table
    status_file,      \* ./storage/video_status/status.json as last written
    pc,               \* per job: position of generate_video_background
    task,             \* per job: the arguments of the background task
    raw_images,       \* per job: WebScraper._extract_images' list `images`
    product_data,     \* per job: ProductData.images returned by the scraper
    call,             \* per job: the arguments of VideoGenerator.generate_video
    gen_pc,           \* per job: position inside the VideoGenerator call
    template,         \* per job: generate_video's local `template`
    video_size,       \* per job: VideoGenerator.video_size of the job's instance
    fetched,          \* per job: outcome of each image awaited so far
    image_clips,      \* per job: _create_dynamic_image_slideshow's `image_clips`
    slideshow,        \* per job: what _create_dynamic_image_slideshow returned
    background_clip,  \* per job: generate_video's `background_clip` after subclip
    text_lines,       \* per job: _create_sequential_text_overlays' `text_lines`
    text_clips,       \* per job: generate_video's `text_clips`
    actual_duration,  \* per job: generate_video's `actual_duration`
    result,           \* per job: what generate_video returned or raised
    files,            \* the files under ./storage/images and ./storage/videos
    reply,            \* the HTTP response the step just taken sent, if any
    content_gen       \* a call of ContentGenerator.generate_video_script

vars == << video_status, status_file, pc, task, raw_images, product_data, call,
           gen_pc, template, video_size, fetched, image_clips, slideshow,
           background_clip, text_lines, text_clips, actual_duration, result,
           files, reply, content_gen >>

\* the state of the jobs, the files and the requests
job_vars == << video_status, status_file, pc, task, raw_images, product_data,
               call, gen_pc, template, video_size, fetched, image_clips,
               slideshow, background_clip, text_lines, text_clips,
               actual_duration, result, files, reply >>

----------------------------------------------------------------------------
(* Units and program constants *)

\* one second, in model time units; divisible by 1..8 and by 5, 25, 100
Scale == 16 * 3 * 25 * 7

MinDuration == 15        \* generator.py: the 15.0 floor of the actual duration
BufferSeconds == 3       \* generator.py: the 3.0 s buffer after the last text
MaxLineSeconds == 4      \* generator.py: min(4.0, duration / total_lines)
MaxImages == 8           \* generator.py: product_data.images[:8]
MaxBulletLines == 5      \* generator.py: script.bullet_points[:5]
MaxScraped == 20         \* scraper.py: unique_images[:20]
BulletSpacing == 80      \* generator.py: index * 80 pixels between bullets

Min(a, b) == IF a <= b THEN a ELSE b
Max(a, b) == IF a >= b THEN a ELSE b

\* Python's s[:n]
Take(s, n) == SubSeq(s, 1, Min(Len(s), n))

Jobs == {"j1", "j2"}

None == [kind |-> "None"]

----------------------------------------------------------------------------
(* templates.py: the built-in catalog *)

TemplateKeys == {"modern_bold", "elegant_pro", "vibrant_social", "high_visibility"}

\* animation_speed is held in tenths (1.2 -> 12)
Catalog ==
    [k \in TemplateKeys |->
        CASE k = "modern_bold" ->
               [key |-> k, name |-> "Modern Bold",
                description |-> "Bold, vibrant colors with modern typography",
                background_style |-> "gradient",
                n_colors |-> 2, animation_speed |-> 12,
                transition_style |-> "crossfade", overall_theme |-> "modern",
                text_roles |-> {"headline", "bullet", "cta"}]
          [] k = "elegant_pro" ->
               [key |-> k, name |-> "Elegant Professional",
                description |-> "Clean, professional look with subtle animations",
                background_style |-> "gradient",
                n_colors |-> 2, animation_speed |-> 10,
                transition_style |-> "crossfade", overall_theme |-> "elegant",
                text_roles |-> {"headline", "bullet", "cta"}]
          [] k = "vibrant_social" ->
               [key |-> k, name |-> "Vibrant Social",
                description |-> "Eye-catching colors perfect for social media",
                background_style |-> "gradient",
                n_colors |-> 2, animation_speed |-> 15,
                transition_style |-> "slide", overall_theme |-> "vibrant",
                text_roles |-> {"headline", "bullet", "cta"}]
          [] k = "high_visibility" ->
               [key |-> k, name |-> "High Visibility",
                description |-> "Maximum contrast colors for visibility on any background",
                background_style |-> "gradient",
                n_colors |-> 2, animation_speed |-> 15,
                transition_style |-> "crossfade", overall_theme |-> "high_visibility",
                text_roles |-> {"headline", "bullet", "cta"}]]

\* a plausible slip: the fallback is the first template of the catalog
get_template_first(template_name) ==
    IF template_name \in DOMAIN Catalog THEN Catalog[template_name]
    ELSE Catalog["modern_bold"]

\* VideoTemplateManager.get_template: dict.get with the high_visibility default
get_template(template_name) ==
    IF template_name \in DOMAIN Catalog THEN Catalog[template_name]
    ELSE Catalog["high_visibility"]

----------------------------------------------------------------------------
(* generator.py: text overlays *)

Strip(s) ==
    LET nonsp == {i \in 1..Len(s) : s[i] # " "}
    IN  IF nonsp = {} THEN << >>
        ELSE LET lo == CHOOSE i \in nonsp : \A k \in nonsp : i <= k
                 hi == CHOOSE i \in nonsp : \A k \in nonsp : i >= k
             IN  SubSeq(s, lo, hi)

\* point.replace('**', '').replace('*', ''), then the part after the first ':'
CleanPoint(point) ==
    LET noStar == SelectSeq(point, LAMBDA c : c # "*")
        colons == {i \in 1..Len(noStar) : noStar[i] = ":"}
    IN  IF colons = {} THEN noStar
        ELSE LET first == CHOOSE i \in colons : \A k \in colons : i <= k
             IN  Strip(SubSeq(noStar, first + 1, Len(noStar)))

\* a plausible slip: the headline is appended without the emptiness guard
TextLinesNoGuard(script) ==
    << [role |-> "headline", text |-> script.headline] >>
    \o [i \in 1..Min(Len(script.bullet_points), MaxBulletLines) |->
            [role |-> "bullet", text |-> CleanPoint(script.bullet_points[i])]]
    \o << [role |-> "cta", text |-> script.call_to_action] >>

\* a plausible slip: every bullet gets a line, the cap of five is left out
TextLinesAllBullets(script) ==
    (IF script.headline # << >>
        THEN << [role |-> "headline", text |-> script.headline] >>
        ELSE << >>)
    \o [i \in 1..Len(script.bullet_points) |->
            [role |-> "bullet", text |-> CleanPoint(script.bullet_points[i])]]
    \o << [role |-> "cta", text |-> script.call_to_action] >>

\* _create_sequential_text_overlays, lines 333-349: the list text_lines
TextLines(script) ==
    (IF script.headline # << >>
        THEN << [role |-> "headline", text |-> script.headline] >>
        ELSE << >>)
    \o [i \in 1..Min(Len(script.bullet_points), MaxBulletLines) |->
            [role |-> "bullet", text |-> CleanPoint(script.bullet_points[i])]]
    \o << [role |-> "cta", text |-> script.call_to_action] >>

\* a plausible slip: the cap of 4 seconds per line is left out
LineDurationNoCap(duration, total_lines) == (duration * Scale) \div total_lines

\* line 357: min(4.0, duration / total_lines)
LineDuration(duration, total_lines) ==
    Min(MaxLineSeconds * Scale, (duration * Scale) \div total_lines)

\* line 362: i * (line_duration * 0.8), i counted from 0
StartTime(i, line_duration) == i * ((line_duration * 8) \div 10)

\* _create_styled_text_clip, lines 402-407: the vertical position
TextY(index, total_lines, size) ==
    IF index = 0 THEN (size[2] * 15) \div 100
    ELSE IF index = total_lines - 1 THEN (size[2] * 75) \div 100
    ELSE (size[2] * 35) \div 100 + index * BulletSpacing

\* the clip _create_styled_text_clip returns for line i (0-based)
TextClip(lines, i, duration, tpl, size) ==
    LET L == LineDuration(duration, Len(lines))
        role == lines[i + 1].role
    IN  [index |-> i,
         role |-> role,
         style |-> IF role \in tpl.text_roles THEN role ELSE "headline",
         start |-> StartTime(i, L),
         duration |-> L,
         fade |-> (8 * tpl.animation_speed * Scale) \div 100,
         y |-> TextY(i, Len(lines), size)]

\* lines 360-376: the clips of the lines whose rendering did not fail, in order;
\* `rendered` is the set of 0-based line indices that rendered
RECURSIVE TextClipsFrom(_, _, _, _, _, _)
TextClipsFrom(lines, i, rendered, duration, tpl, size) ==
    IF i >= Len(lines) THEN << >>
    ELSE (IF i \in rendered THEN << TextClip(lines, i, duration, tpl, size) >> ELSE << >>)
         \o TextClipsFrom(lines, i + 1, rendered, duration, tpl, size)

TextClips(lines, rendered, duration, tpl, size) ==
    TextClipsFrom(lines, 0, rendered, duration, tpl, size)

----------------------------------------------------------------------------
(* generator.py: the actual duration *)

\* a plausible slip: the end of the first clip is taken for the latest end
LatestEndOfFirst(clips) ==
    IF clips = << >> THEN 0 ELSE clips[1].start + clips[1].duration

RECURSIVE LatestEnd(_)
LatestEnd(clips) ==
    IF clips = << >> THEN 0
    ELSE Max(LatestEnd(Take(clips, Len(clips) - 1)),
             clips[Len(clips)].start + clips[Len(clips)].duration)

\* a plausible slip: the 15 s floor is left out
CalcNoFloor(clips, max_duration) ==
    IF clips = << >> THEN Min(MinDuration * Scale, max_duration * Scale)
    ELSE Min(LatestEnd(clips) + BufferSeconds * Scale, max_duration * Scale)

\* _calculate_actual_duration, lines 511-531
CalculateActualDuration(clips, max_duration) ==
    IF clips = << >> THEN Min(MinDuration * Scale, max_duration * Scale)
    ELSE Max(Min(LatestEnd(clips) + BufferSeconds * Scale, max_duration * Scale),
             MinDuration * Scale)

----------------------------------------------------------------------------
(* scraper.py: the end of _extract_images *)

\* list(dict.fromkeys(images)): the first occurrence of each URL, in order
RECURSIVE Dedup(_)
Dedup(s) ==
    IF s = << >> THEN << >>
    ELSE LET init == Dedup(Take(s, Len(s) - 1))
             last == s[Len(s)]
         IN  IF \E i \in 1..Len(init) : init[i] = last THEN init
             ELSE Append(init, last)

\* a plausible slip: the duplicates are kept
UniqueImagesKeepAll(images) == Take(images, MaxScraped)

\* lines 254-258: unique_images[:20]
UniqueImages(images) == Take(Dedup(images), MaxScraped)

----------------------------------------------------------------------------
(* generator.py: the background slideshow *)

VideoSize(aspect_ratio) ==
    IF aspect_ratio = "9:16" THEN << 1080, 1920 >> ELSE << 1920, 1080 >>

\* a plausible slip: the cap on the number of images is left out
SlideImagesNoCap(images) == images

\* line 102: product_data.images[:8]
SlideImages(images) == Take(images, MaxImages)

\* line 129: duration / len(images), images being the capped URL list
ClipDuration(duration, n_images) == (duration * Scale) \div n_images

\* lines 116-136: the clip made of image i (0-based) of the capped list
ImageClip(i, url, duration, n_images) ==
    [index |-> i, url |-> url, duration |-> ClipDuration(duration, n_images),
     animation_type |-> i % 4]

\* what awaiting and processing one image can come to: a clip, None from
\* _download_and_process_image, or an exception caught at line 139
ImageOutcomes == {"ok", "fetch_failed", "frame_failed"}

\* the loop body, lines 110-141: image_clips after image i came back
ImageClipsAfter(clips, outcome, i, url, duration, n_images) ==
    IF outcome = "ok" THEN Append(clips, ImageClip(i, url, duration, n_images))
    ELSE clips

\* what create_gradient_background and ImageClip can come to inside
\* _create_gradient_background_clip: a file that exists, no file, an exception
GradientOutcomes == {"file", "no_file", "raise"}

\* a plausible slip: the fallback clip is built without the except branch
GradientClipNoExcept(tpl, size, duration, g) ==
    IF g = "raise" THEN [kind |-> "raise", duration |-> 0, size |-> size, n_clips |-> 0]
    ELSE IF tpl.background_style = "gradient" /\ tpl.n_colors > 1 /\ g = "file"
        THEN [kind |-> "gradient", duration |-> duration * Scale, size |-> size, n_clips |-> 0]
        ELSE [kind |-> "solid", duration |-> duration * Scale, size |-> size, n_clips |-> 0]

\* _create_gradient_background_clip, lines 175-192
GradientClip(tpl, size, duration, g) ==
    IF g = "raise"
        THEN [kind |-> "fixed_solid", duration |-> duration * Scale, size |-> size, n_clips |-> 0]
    ELSE IF tpl.background_style = "gradient" /\ tpl.n_colors > 1 /\ g = "file"
        THEN [kind |-> "gradient", duration |-> duration * Scale, size |-> size, n_clips |-> 0]
        ELSE [kind |-> "solid", duration |-> duration * Scale, size |-> size, n_clips |-> 0]

RECURSIVE SumDurations(_)
SumDurations(clips) ==
    IF clips = << >> THEN 0
    ELSE clips[1].duration + SumDurations(Tail(clips))

\* a plausible slip: the outer try/except of the slideshow step is left out
SlideshowReturnNoOuterExcept(clips, asm, g, tpl, size, duration) ==
    IF clips = << >> THEN GradientClip(tpl, size, duration, g)
    ELSE IF Len(clips) = 1
        THEN [kind |-> "image", duration |-> clips[1].duration, size |-> size, n_clips |-> 1]
    ELSE IF asm = "raise"
        THEN [kind |-> "raise", duration |-> 0, size |-> size, n_clips |-> 0]
    ELSE [kind |-> "slideshow", duration |-> SumDurations(clips), size |-> size,
          n_clips |-> Len(clips)]

\* lines 143-173: what the slideshow step returns once the loop is over;
\* asm is "raise" when the transitions or concatenate_videoclips raise
SlideshowReturn(clips, asm, g, tpl, size, duration) ==
    IF clips = << >> THEN GradientClip(tpl, size, duration, g)
    ELSE IF Len(clips) = 1
        THEN [kind |-> "image", duration |-> clips[1].duration, size |-> size, n_clips |-> 1]
    ELSE IF asm = "raise" THEN GradientClip(tpl, size, duration, g)
    ELSE [kind |-> "slideshow", duration |-> SumDurations(clips), size |-> size,
          n_clips |-> Len(clips)]

\* line 64: background_clip.subclip(0, actual_duration); moviepy sets the new
\* duration to t_end - t_start whatever the length of the source clip
Subclip(clip, t_end) ==
    [kind |-> clip.kind, duration |-> t_end, size |-> clip.size,
     n_clips |-> clip.n_clips, source_duration |-> clip.duration]

----------------------------------------------------------------------------
(* endpoints/video.py: the job table *)

EmptyTable == [x \in {} |-> None]

\* dict.update: the keys of upd replace or extend those of rec
Update(rec, upd) ==
    [k \in DOMAIN rec \cup DOMAIN upd |-> IF k \in DOMAIN upd THEN upd[k] ELSE rec[k]]

\* a plausible slip: the progress is added to, not assigned
SetProgressAdds(st, j, p) ==
    [st EXCEPT ![j] = Update(st[j], [progress |-> st[j].progress + p])]

SetProgress(st, j, p) == [st EXCEPT ![j] = Update(st[j], [progress |-> p])]

\* generator.py line 76: the path of the file generate_video writes
VideoPath(j) == << "./storage/videos", j, ".mp4" >>

\* a plausible slip: the status is set to completed while the progress and
\* the path are left for a later write
CompletedStatusFirst(st, j, path) ==
    [st EXCEPT ![j] =
        Update(Update(st[j], [progress |-> 90]),
               [status |-> "completed",
                message |-> << "Video generated successfully" >>])]

\* lines 211-221: progress 90, then the completed record
Completed(st, j, path) ==
    [st EXCEPT ![j] =
        Update(Update(st[j], [progress |-> 90]),
               [status |-> "completed", progress |-> 100, video_path |-> path,
                message |-> << "Video generated successfully" >>])]

\* a plausible slip: the except branch logs the error and leaves the record
FailedOnlyLogged(st, j, e) == st

\* a plausible slip: the failed record names the partial output file
FailedWithPath(st, j, e) ==
    [st EXCEPT ![j] =
        Update(st[j], [status |-> "failed", progress |-> 0, video_path |-> VideoPath(j),
                       message |-> << "Video generation failed: ", e >>])]

\* lines 228-234: the failed record
Failed(st, j, e) ==
    [st EXCEPT ![j] =
        Update(st[j], [status |-> "failed", progress |-> 0,
                       message |-> << "Video generation failed: ", e >>])]

Set(f, j, v) == [f EXCEPT ![j] = v]

\* no ./storage/video_status/status.json on disk
NoFile == [kind |-> "absent"]

\* the values of these keys are Python ints, the others are Python strs
NumberKeys == {"progress", "duration"}

\* json.dump of the table: an object of objects whose members are JSON
\* numbers (from int) and JSON strings (from str)
JsonDump(st) ==
    [kind |-> "json",
     doc |-> [j \in DOMAIN st |->
                [k \in DOMAIN st[j] |->
                    IF k \in NumberKeys THEN [json |-> "number", value |-> st[j][k]]
                    ELSE [json |-> "string", value |-> st[j][k]]]]]

\* json.load: objects become dicts, numbers ints, strings strs
JsonLoad(file) ==
    [j \in DOMAIN file.doc |->
        [k \in DOMAIN file.doc[j] |-> file.doc[j][k].value]]

\* save_video_status, lines 31-38: the file after the table was written (the
\* write itself is taken to succeed; a failure is logged and swallowed)
save_video_status(st) == JsonDump(st)

\* a plausible slip: only the completed records are taken from the file, as
\* the recovery loop of lines 44-48 looks at those alone
load_video_status_completed_only(file) ==
    IF file = NoFile THEN EmptyTable
    ELSE LET st == JsonLoad(file)
         IN  [j \in {k \in DOMAIN st : st[k].status = "completed"} |-> st[j]]

\* load_video_status, lines 21-29
load_video_status(file) == IF file = NoFile THEN EmptyTable ELSE JsonLoad(file)

----------------------------------------------------------------------------
(* the files a render leaves under ./storage *)

\* line 125: ./storage/images/product_{video_id}_{i}.jpg
ProductFile(j, i) == [kind |-> "product", job |-> j, index |-> i]

\* templates.py line 275: ./storage/images/gradient_bg_{hash(str(colors))}.png
\* the path depends on the colors alone; the image has the size it was drawn at
GradientFile(tpl, size) == [kind |-> "gradient", colors |-> tpl.key, size |-> size]

\* a plausible slip: a gradient image already on disk is kept and used again
WriteGradientIfAbsent(fs, tpl, size) ==
    IF \E f \in fs : f.kind = "gradient" /\ f.colors = tpl.key THEN fs
    ELSE fs \cup {GradientFile(tpl, size)}

\* templates.py lines 259-277: the image is drawn at `size` and saved over
\* whatever file has that path
WriteGradient(fs, tpl, size) ==
    {f \in fs : ~(f.kind = "gradient" /\ f.colors = tpl.key)}
    \cup {GradientFile(tpl, size)}

\* line 76: ./storage/videos/{video_id}.mp4
VideoFile(j) == [kind |-> "video", path |-> VideoPath(j)]

\* the gradient image is on disk once create_gradient_background has saved it:
\* when the clip is made of it, and when ImageClip raised on it (line 184)
GradientFiles(fs, slide, tpl, size) ==
    IF slide.kind \in {"gradient", "fixed_solid"} THEN WriteGradient(fs, tpl, size)
    ELSE fs

\* line 184: ImageClip(gradient_path) reads the image at once; the clip has
\* the size of the image that is in the file
LoadedGradient(slide, fs, tpl) ==
    IF slide.kind = "gradient"
        THEN [slide EXCEPT !.size =
                 (CHOOSE f \in fs : f.kind = "gradient" /\ f.colors = tpl.key).size]
        ELSE slide

\* lines 123-126: the processed image saved for a frame that was prepared; a
\* frame that failed did so at resize or save and left no file
ProductFiles(j, i, outcome) ==
    IF outcome = "ok" THEN {ProductFile(j, i)} ELSE {}

----------------------------------------------------------------------------
(* Actions *)

EncodeOutcomes == {"ok", "raise"}
AssemblyOutcomes == {"ok", "raise"}

\* a plausible slip: the exception of generate_video is swallowed and the job
\* is marked completed all the same
ConcludeAlwaysCompleted(j, res, st) ==
    IF pc[j] \in {"scripting", "rendering"}
        THEN /\ video_status' = Completed(st, j, VideoPath(j))
             /\ status_file' = JsonDump(video_status')
             /\ pc' = Set(pc, j, "done")
        ELSE /\ video_status' = st
             /\ UNCHANGED << status_file, pc >>

\* generate_video_background, lines 211-236: what follows the return of
\* generate_video when the background task is its caller; a direct call of
\* the generator touches no job record
Conclude(j, res, st) ==
    IF pc[j] \in {"scripting", "rendering"}
        THEN /\ video_status' = (IF res.kind = "returned"
                                    THEN Completed(st, j, res.path)
                                    ELSE Failed(st, j, res.error))
             /\ status_file' = save_video_status(video_status')
             /\ pc' = Set(pc, j, "done")
        ELSE /\ video_status' = st
             /\ UNCHANGED << status_file, pc >>

\* generate_video, lines 55-95, once the slideshow step has returned `slide`;
\* fs is the set of files on disk at that point. The text images are removed
\* at line 446 before their clips are returned. The encoder opens the output
\* file before it writes: when it raises, the partial file stays on disk.
FinishRender(j, c, tpl, size, slide, st, fs) ==
    /\ slideshow' = Set(slideshow, j,
                        LoadedGradient(slide, GradientFiles(fs, slide, tpl, size), tpl))
    /\ gen_pc' = Set(gen_pc, j, "done")
    /\ IF slide.kind = "raise"
          THEN LET res == [kind |-> "raised", fn |-> "generate_video",
                           error |-> "slideshow"]
               IN  /\ result' = Set(result, j, res)
                   /\ files' = fs
                   /\ UNCHANGED << background_clip, text_lines, text_clips,
                                   actual_duration >>
                   /\ Conclude(j, res, st)
          ELSE LET lines == TextLines(c.script) IN
               \E rendered \in SUBSET (0..(Len(lines) - 1)), enc \in EncodeOutcomes :
                 LET clips == TextClips(lines, rendered, c.duration, tpl, size)
                     actual == CalculateActualDuration(clips, c.duration)
                     res == IF enc = "ok"
                               THEN [kind |-> "returned", fn |-> "generate_video",
                                     path |-> VideoPath(j)]
                               ELSE [kind |-> "raised", fn |-> "generate_video",
                                     error |-> "encode"]
                 IN  /\ text_lines' = Set(text_lines, j, lines)
                     /\ text_clips' = Set(text_clips, j, clips)
                     /\ actual_duration' = Set(actual_duration, j, actual)
                     /\ background_clip' =
                           Set(background_clip, j, Subclip(slideshow'[j], actual))
                     /\ result' = Set(result, j, res)
                     /\ files' = GradientFiles(fs, slide, tpl, size) \cup {VideoFile(j)}
                     /\ Conclude(j, res, st)

\* generate_video, lines 34-53, up to the first image awaited (or to the end
\* when there is no image to await)
EnterGenerateVideo(j, c, st) ==
    LET tpl == get_template(c.template_name)
        size == VideoSize(c.aspect_ratio)
        images == SlideImages(c.images)
    IN  /\ call' = Set(call, j, c)
        /\ template' = Set(template, j, tpl)
        /\ video_size' = Set(video_size, j, size)
        /\ fetched' = Set(fetched, j, << >>)
        /\ image_clips' = Set(image_clips, j, << >>)
        /\ IF images = << >>
              THEN \E g \in GradientOutcomes :
                     FinishRender(j, c, tpl, size,
                                  SlideshowReturn(<< >>, "ok", g, tpl, size, c.duration),
                                  st, files)
              ELSE /\ gen_pc' = Set(gen_pc, j, "downloading")
                   /\ video_status' = st
                   /\ pc' = IF pc[j] = "scripting" THEN Set(pc, j, "rendering") ELSE pc
                   /\ UNCHANGED << status_file, slideshow, background_clip, text_lines,
                                   text_clips, actual_duration, result, files >>

\* a caller other than the background task calls VideoGenerator.generate_video
CallGenerateVideo(j, Calls) ==
    /\ UNCHANGED content_gen
    /\ pc[j] = "idle" /\ gen_pc[j] = "idle"
    /\ \E c \in Calls : EnterGenerateVideo(j, c, video_status)
    /\ reply' = None
    /\ UNCHANGED << task, raw_images, product_data >>

\* _create_dynamic_image_slideshow: the await of line 116 returns for the
\* image at hand; the loop goes on to the next await or the call runs to its end
ImageReturn(j) ==
    /\ UNCHANGED content_gen
    /\ gen_pc[j] = "downloading"
    /\ LET c == call[j]
           images == SlideImages(c.images)
           i == Len(fetched[j])
       IN \E o \in ImageOutcomes :
            LET clips == ImageClipsAfter(image_clips[j], o, i, images[i + 1],
                                         c.duration, Len(images))
                fs == files \cup ProductFiles(j, i, o)
            IN  /\ fetched' = Set(fetched, j, Append(fetched[j], o))
                /\ image_clips' = Set(image_clips, j, clips)
                /\ IF i + 1 < Len(images)
                      THEN /\ files' = fs
                           /\ UNCHANGED << video_status, status_file, pc, gen_pc,
                                           slideshow, background_clip, text_lines,
                                           text_clips, actual_duration, result >>
                      ELSE \E asm \in AssemblyOutcomes, g \in GradientOutcomes :
                             FinishRender(j, c, template[j], video_size[j],
                                  SlideshowReturn(clips, asm, g, template[j],
                                                  video_size[j], c.duration),
                                  video_status, fs)
    /\ reply' = None
    /\ UNCHANGED << task, raw_images, product_data, call, template, video_size >>

\* a caller calls VideoGenerator._calculate_actual_duration on a clip list
CallCalculateActualDuration(j, ClipLists, Durations) ==
    /\ UNCHANGED content_gen
    /\ pc[j] = "idle" /\ gen_pc[j] = "idle"
    /\ \E clips \in ClipLists, d \in Durations :
         /\ call' = Set(call, j, [fn |-> "_calculate_actual_duration",
                                  max_duration |-> d])
         /\ text_clips' = Set(text_clips, j, clips)
         /\ actual_duration' = Set(actual_duration, j, CalculateActualDuration(clips, d))
         /\ result' = Set(result, j, [kind |-> "returned",
                                      fn |-> "_calculate_actual_duration"])
    /\ gen_pc' = Set(gen_pc, j, "done")
    /\ UNCHANGED << video_status, status_file, pc, task, raw_images, product_data,
                    template, video_size, fetched, image_clips, slideshow,
                    background_clip, text_lines, files >>
    /\ reply' = None

\* a plausible slip: the handler runs the task up to its first await before
\* it returns
SubmitRunsTaskInline(j, Requests) ==
    /\ UNCHANGED content_gen
    /\ pc[j] = "idle" /\ gen_pc[j] = "idle"
    /\ \E r \in Requests :
         /\ video_status' =
               [k \in DOMAIN video_status \cup {j} |->
                   IF k = j THEN [status |-> "generating", progress |-> 10,
                                  url |-> r.url, template |-> r.template,
                                  aspect_ratio |-> r.aspect_ratio,
                                  duration |-> r.duration]
                   ELSE video_status[k]]
         /\ task' = Set(task, j, [url |-> r.url, template_name |-> r.template,
                                  aspect_ratio |-> r.aspect_ratio,
                                  duration |-> r.duration])
    /\ status_file' = save_video_status(video_status')
    /\ pc' = Set(pc, j, "scraping")
    /\ reply' = [endpoint |-> "generate_video", path |-> << "generate" >>,
                 code |-> 200, video_id |-> j, status |-> "generating"]
    /\ UNCHANGED << raw_images, product_data, call, gen_pc, template, video_size,
                    fetched, image_clips, slideshow, background_clip, text_lines,
                    text_clips, actual_duration, result, files >>

\* a plausible slip: the validation of line 73 tests the name against the
\* keys of the catalog, and the HTTPException ends as the 500 of line 110
SubmitRejectsUnknown(j, Requests) ==
    /\ UNCHANGED content_gen
    /\ pc[j] = "idle" /\ gen_pc[j] = "idle"
    /\ \E r \in Requests :
         IF r.template \in TemplateKeys
            THEN /\ video_status' =
                       [k \in DOMAIN video_status \cup {j} |->
                           IF k = j THEN [status |-> "generating", progress |-> 0,
                                          url |-> r.url, template |-> r.template,
                                          aspect_ratio |-> r.aspect_ratio,
                                          duration |-> r.duration]
                           ELSE video_status[k]]
                 /\ task' = Set(task, j, [url |-> r.url, template_name |-> r.template,
                                          aspect_ratio |-> r.aspect_ratio,
                                          duration |-> r.duration])
                 /\ status_file' = save_video_status(video_status')
                 /\ pc' = Set(pc, j, "queued")
                 /\ reply' = [endpoint |-> "generate_video", path |-> << "generate" >>,
                              code |-> 200, video_id |-> j, status |-> "generating"]
            ELSE /\ reply' = [endpoint |-> "generate_video", path |-> << "generate" >>,
                              code |-> 500, detail |-> "Invalid template"]
                 /\ UNCHANGED << video_status, task, status_file, pc >>
    /\ UNCHANGED << raw_images, product_data, call, gen_pc, template, video_size,
                    fetched, image_clips, slideshow, background_clip, text_lines,
                    text_clips, actual_duration, result, files >>

\* a plausible slip: the handler starts from a table of its own, so the
\* records of the other jobs are gone
SubmitFreshTable(j, Requests) ==
    /\ UNCHANGED content_gen
    /\ pc[j] = "idle" /\ gen_pc[j] = "idle"
    /\ \E r \in Requests :
         /\ video_status' =
               [k \in {j} |-> [status |-> "generating", progress |-> 0,
                               url |-> r.url, template |-> r.template,
                               aspect_ratio |-> r.aspect_ratio,
                               duration |-> r.duration]]
         /\ task' = Set(task, j, [url |-> r.url, template_name |-> r.template,
                                  aspect_ratio |-> r.aspect_ratio,
                                  duration |-> r.duration])
    /\ status_file' = save_video_status(video_status')
    /\ pc' = Set(pc, j, "queued")
    /\ reply' = [endpoint |-> "generate_video", path |-> << "generate" >>,
                 code |-> 200, video_id |-> j, status |-> "generating"]
    /\ UNCHANGED << raw_images, product_data, call, gen_pc, template, video_size,
                    fetched, image_clips, slideshow, background_clip, text_lines,
                    text_clips, actual_duration, result, files >>

\* POST /generate, lines 50-110: the record is created, the task queued, the
\* table saved; get_template never returns a falsy value, so line 74 is dead
Submit(j, Requests) ==
    /\ UNCHANGED content_gen
    /\ pc[j] = "idle" /\ gen_pc[j] = "idle"
    /\ \E r \in Requests :
         /\ video_status' =
               [k \in DOMAIN video_status \cup {j} |->
                   IF k = j THEN [status |-> "generating", progress |-> 0,
                                  url |-> r.url, template |-> r.template,
                                  aspect_ratio |-> r.aspect_ratio,
                                  duration |-> r.duration]
                   ELSE video_status[k]]
         /\ task' = Set(task, j, [url |-> r.url, template_name |-> r.template,
                                  aspect_ratio |-> r.aspect_ratio,
                                  duration |-> r.duration])
    /\ status_file' = save_video_status(video_status')
    /\ pc' = Set(pc, j, "queued")
    /\ reply' = [endpoint |-> "generate_video", path |-> << "generate" >>,
                 code |-> 200, video_id |-> j, status |-> "generating"]
    /\ UNCHANGED << raw_images, product_data, call, gen_pc, template, video_size,
                    fetched, image_clips, slideshow, background_clip, text_lines,
                    text_clips, actual_duration, result, files >>

\* generate_video_background, lines 178-190: up to the await of the scraper
BackgroundStart(j) ==
    /\ UNCHANGED content_gen
    /\ pc[j] = "queued"
    /\ video_status' = SetProgress(video_status, j, 10)
    /\ pc' = Set(pc, j, "scraping")
    /\ UNCHANGED << status_file, task, raw_images, product_data, call, gen_pc,
                    template, video_size, fetched, image_clips, slideshow,
                    background_clip, text_lines, text_clips, actual_duration, result,
                    files >>
    /\ reply' = None

\* lines 190-197: scrape_product_data raises, or returns the product data
ScrapeReturn(j, RawImageLists) ==
    /\ UNCHANGED content_gen
    /\ pc[j] = "scraping"
    /\ \/ /\ video_status' = Failed(video_status, j, "scrape")
          /\ status_file' = save_video_status(video_status')
          /\ pc' = Set(pc, j, "done")
          /\ UNCHANGED << raw_images, product_data >>
       \/ \E raw \in RawImageLists :
            /\ raw_images' = Set(raw_images, j, raw)
            /\ product_data' = Set(product_data, j, [images |-> UniqueImages(raw)])
            /\ video_status' = SetProgress(video_status, j, 30)
            /\ pc' = Set(pc, j, "scripting")
            /\ UNCHANGED status_file
    /\ UNCHANGED << task, call, gen_pc, template, video_size, fetched, image_clips,
                    slideshow, background_clip, text_lines, text_clips,
                    actual_duration, result, files >>
    /\ reply' = None

\* lines 197-210: generate_video_script returns, progress 60, generate_video
\* is entered
ScriptReturn(j, Scripts) ==
    /\ UNCHANGED content_gen
    /\ pc[j] = "scripting"
    /\ \E s \in Scripts :
         EnterGenerateVideo(j,
            [fn |-> "generate_video", script |-> s,
             images |-> product_data[j].images,
             aspect_ratio |-> task[j].aspect_ratio,
             duration |-> task[j].duration,
             template_name |-> task[j].template_name],
            SetProgress(video_status, j, 60))
    /\ reply' = None
    /\ UNCHANGED << task, raw_images, product_data >>

----------------------------------------------------------------------------
(* endpoints/video.py: the requests and the restart of the process *)

\* templates.py, list_templates, lines 221-230
list_templates ==
    { [name |-> Catalog[k].name, description |-> Catalog[k].description,
       theme |-> Catalog[k].overall_theme] : k \in TemplateKeys }

\* the routes of the video router in the order of their decorators; a path is
\* the sequence of its segments after the prefix /api/v1/video
Routes ==
    << [method |-> "POST", pattern |-> << "generate" >>,
        endpoint |-> "generate_video"],
       [method |-> "GET", pattern |-> << "{video_id}" >>,
        endpoint |-> "get_video_status"],
       [method |-> "GET", pattern |-> << "{video_id}", "download" >>,
        endpoint |-> "download_video"],
       [method |-> "GET", pattern |-> << "templates" >>,
        endpoint |-> "get_templates"] >>

\* a path parameter matches any one segment
Matches(route, method, path) ==
    /\ route.method = method
    /\ Len(route.pattern) = Len(path)
    /\ \A i \in 1..Len(path) :
          route.pattern[i] = "{video_id}" \/ route.pattern[i] = path[i]

\* the router hands a request to the first route, in the order of
\* declaration, that matches it
Dispatch(method, path) ==
    LET hits == {i \in 1..Len(Routes) : Matches(Routes[i], method, path)}
    IN  IF hits = {} THEN "no_route"
        ELSE Routes[CHOOSE i \in hits : \A k \in hits : i <= k].endpoint

\* dict.get(key, default)
Get(rec, key, default) == IF key \in DOMAIN rec THEN rec[key] ELSE default

\* GET /{video_id}, lines 112-130
get_video_status(st, video_id) ==
    IF video_id \notin DOMAIN st
        THEN [endpoint |-> "get_video_status", code |-> 404, video_id |-> video_id,
              detail |-> "Video not found"]
        ELSE [endpoint |-> "get_video_status", code |-> 200, video_id |-> video_id,
              status |-> st[video_id].status,
              progress |-> Get(st[video_id], "progress", 0),
              message |-> Get(st[video_id], "message", << >>),
              video_path |-> Get(st[video_id], "video_path", << >>)]

\* os.path.exists on a path under ./storage/videos
Exists(fs, path) == \E f \in fs : f.kind = "video" /\ f.path = path

\* a plausible slip: the status of the record is not looked at
download_video_any_status(st, fs, video_id) ==
    IF video_id \notin DOMAIN st
        THEN [endpoint |-> "download_video", code |-> 404, video_id |-> video_id,
              detail |-> "Video not found"]
    ELSE IF ~Exists(fs, VideoPath(video_id))
        THEN [endpoint |-> "download_video", code |-> 404, video_id |-> video_id,
              detail |-> "Video file not found"]
    ELSE [endpoint |-> "download_video", code |-> 200, video_id |-> video_id,
          file |-> VideoPath(video_id)]

\* GET /{video_id}/download, lines 132-158
download_video(st, fs, video_id) ==
    IF video_id \notin DOMAIN st
        THEN [endpoint |-> "download_video", code |-> 404, video_id |-> video_id,
              detail |-> "Video not found"]
    ELSE IF st[video_id].status # "completed"
        THEN [endpoint |-> "download_video", code |-> 400, video_id |-> video_id,
              detail |-> "Video not ready for download"]
    ELSE IF Get(st[video_id], "video_path", << >>) = << >>
            \/ ~Exists(fs, st[video_id].video_path)
        THEN [endpoint |-> "download_video", code |-> 404, video_id |-> video_id,
              detail |-> "Video file not found"]
    ELSE [endpoint |-> "download_video", code |-> 200, video_id |-> video_id,
          file |-> st[video_id].video_path]

\* GET /templates, lines 160-165: VideoTemplateManager has no method
\* get_all_templates, the call raises AttributeError
get_templates ==
    [endpoint |-> "get_templates", code |-> 500,
     detail |-> "AttributeError: get_all_templates"]

\* a GET request is routed and answered
HttpGet(Paths) ==
    /\ UNCHANGED content_gen
    /\ \E path \in Paths :
         LET e == Dispatch("GET", path)
             r == CASE e = "get_video_status" -> get_video_status(video_status, path[1])
                    [] e = "download_video" ->
                           download_video(video_status, files, path[1])
                    [] e = "get_templates" -> get_templates
                    [] OTHER -> [endpoint |-> e, code |-> 404, detail |-> "Not Found"]
         IN  reply' = Update(r, [path |-> path])
    /\ UNCHANGED << video_status, status_file, pc, task, raw_images, product_data,
                    call, gen_pc, template, video_size, fetched, image_clips,
                    slideshow, background_clip, text_lines, text_clips,
                    actual_duration, result, files >>

\* the positions at which a background task exists and has not ended
InFlight == {"queued", "scraping", "scripting", "rendering"}

\* a plausible slip: the restarted process runs the interrupted jobs again
RestartPositionResume(p) == IF p \in InFlight THEN "queued" ELSE p

\* the position of a job's task after the process died: its task is gone
RestartPosition(p) == IF p \in InFlight THEN "lost" ELSE p

\* the process dies and is started again, lines 16-48: the table is empty,
\* then updated with what load_video_status reads; no task is created
Restart ==
    /\ UNCHANGED content_gen
    /\ video_status' = Update(EmptyTable, load_video_status(status_file))
    /\ pc' = [j \in Jobs |-> RestartPosition(pc[j])]
    /\ gen_pc' = [j \in Jobs |-> IF gen_pc[j] = "downloading" THEN "lost" ELSE gen_pc[j]]
    /\ reply' = None
    /\ UNCHANGED << status_file, task, raw_images, product_data, call, template,
                    video_size, fetched, image_clips, slideshow, background_clip,
                    text_lines, text_clips, actual_duration, result, files >>

----------------------------------------------------------------------------
(* services/ai: the script generation *)

LowerCase ==
    << "a", "b", "c", "d", "e", "f", "g", "h", "i", "j", "k", "l", "m", "n", "o", "p", "q", "r", "s", "t", "u", "v", "w", "x", "y", "z" >>
UpperCase ==
    << "A", "B", "C", "D", "E", "F", "G", "H", "I", "J", "K", "L", "M", "N", "O", "P", "Q", "R", "S", "T", "U", "V", "W", "X", "Y", "Z" >>

\* str.upper() and str.lower(), character by character
UpperChar(c) ==
    IF \E i \in 1..26 : LowerCase[i] = c
        THEN UpperCase[CHOOSE i \in 1..26 : LowerCase[i] = c] ELSE c
LowerChar(c) ==
    IF \E i \in 1..26 : UpperCase[i] = c
        THEN LowerCase[CHOOSE i \in 1..26 : UpperCase[i] = c] ELSE c
Upper(s) == [i \in 1..Len(s) |-> UpperChar(s[i])]
Lower(s) == [i \in 1..Len(s) |-> LowerChar(s[i])]

\* str.startswith(p) and `p in s`
StartsWith(s, p) == Len(s) >= Len(p) /\ SubSeq(s, 1, Len(p)) = p
Contains(s, p) == \E i \in 1..(Len(s) - Len(p) + 1) : SubSeq(s, i, i + Len(p) - 1) = p

\* str.lstrip(chars) and str.rstrip() of spaces
LStripChars(s, chars) ==
    LET keep == {i \in 1..Len(s) : s[i] \notin chars}
    IN  IF keep = {} THEN << >>
        ELSE SubSeq(s, CHOOSE i \in keep : \A k \in keep : i <= k, Len(s))
RStrip(s) ==
    LET keep == {i \in 1..Len(s) : s[i] # " "}
    IN  IF keep = {} THEN << >>
        ELSE SubSeq(s, 1, CHOOSE i \in keep : \A k \in keep : i >= k)

HasColon(line) == \E i \in 1..Len(line) : line[i] = ":"
\* line.split(":", 1)[1].strip(), for a line with a colon
AfterColon(line) ==
    LET colons == {i \in 1..Len(line) : line[i] = ":"}
        first == CHOOSE i \in colons : \A k \in colons : i <= k
    IN  Strip(SubSeq(line, first + 1, Len(line)))

\* the three characters the source has for the bullet mark, as it is encoded
BulletMark == << "a-circumflex", "euro", "cent" >>
BulletChars == {"a-circumflex", "euro", "cent", "-", "*", " "}
Rocket == << "rocket" >>

\* a response text is the sequence of its lines; response.strip() drops the
\* blank lines at both ends and the spaces before the first and after the
\* last character
ResponseStrip(lines) ==
    LET full == {i \in 1..Len(lines) : Strip(lines[i]) # << >>}
    IN  IF full = {} THEN << >>
        ELSE LET lo == CHOOSE i \in full : \A k \in full : i <= k
                 hi == CHOOSE i \in full : \A k \in full : i >= k
             IN  [i \in 1..(hi - lo + 1) |->
                     LET l == lines[lo + i - 1]
                         a == IF i = 1 THEN LStripChars(l, {" "}) ELSE l
                     IN  IF lo + i - 1 = hi THEN RStrip(a) ELSE a]

\* huggingface_client.py, generate_text, lines 19-48: what text_generation
\* raised is logged and None returned; an empty or blank response gives None
generate_text(out) ==
    IF out.kind = "raise" THEN None
    ELSE IF ResponseStrip(out.lines) = << >> THEN None
    ELSE [kind |-> "str", lines |-> ResponseStrip(out.lines)]

\* content_gen.py lines 123-150: the loop over the lines of the response
RECURSIVE ParseLines(_, _)
ParseLines(lines, acc) ==
    IF lines = << >> \/ acc.raised THEN acc
    ELSE
        LET line == Strip(Head(lines))
            up == Upper(line)
            rest == Tail(lines)
        IN  IF line = << >> THEN ParseLines(rest, acc)
            ELSE IF Contains(up, << "H", "E", "A", "D", "L", "I", "N", "E", ":" >>)
                    \/ Contains(up, << "T", "I", "T", "L", "E", ":" >>)
                THEN IF HasColon(line)
                        THEN ParseLines(rest, [acc EXCEPT !.headline = AfterColon(line)])
                        ELSE [acc EXCEPT !.raised = TRUE]
            ELSE IF /\ acc.headline = << >>
                    /\ ~StartsWith(line, BulletMark)
                    /\ ~StartsWith(line, << "-" >>)
                    /\ ~StartsWith(line, << "C", "A", "L", "L" >>)
                THEN ParseLines(rest, [acc EXCEPT !.headline = line])
            ELSE IF \/ StartsWith(line, BulletMark)
                    \/ StartsWith(line, << "-" >>)
                    \/ StartsWith(line, << "*" >>)
                THEN LET point == Strip(LStripChars(line, BulletChars))
                     IN  IF Len(point) > 5
                            THEN ParseLines(rest,
                                    [acc EXCEPT !.bullet_points = Append(@, point)])
                            ELSE ParseLines(rest, acc)
            ELSE IF Contains(up, << "C", "A", "L", "L", " ", "T", "O", " ", "A", "C", "T", "I", "O", "N", ":" >>)
                    \/ Contains(up, << "C", "T", "A", ":" >>)
                THEN IF HasColon(line)
                        THEN ParseLines(rest,
                                [acc EXCEPT !.call_to_action = AfterColon(line)])
                        ELSE [acc EXCEPT !.raised = TRUE]
            ELSE IF \/ Contains(up, << "G", "E", "T", " ", "I", "T", " ", "N", "O", "W" >>)
                    \/ Contains(up, << "S", "H", "O", "P" >>)
                    \/ Contains(up, << "B", "U", "Y" >>)
                THEN ParseLines(rest, [acc EXCEPT !.call_to_action = line])
            ELSE ParseLines(rest, acc)

GetItNow == << "G", "E", "T", " ", "I", "T", " ", "N", "O", "W", "!" >>
OnlyPrice(price) ==
    << "O", "n", "l", "y", " " >> \o price
    \o << " ", "-", " ", "L", "i", "m", "i", "t", "e", "d", " ", "T", "i", "m", "e", "!" >>

\* content_gen.py, _parse_ai_response, lines 111-181: the script read from the
\* response, with the defaults of lines 152-166; an exception in it is raised
\* again (lines 179-181)
parse_ai_response(response, p) ==
    LET acc == ParseLines(response.lines,
                          [headline |-> << >>, bullet_points |-> << >>,
                           call_to_action |-> GetItNow, raised |-> FALSE])
        headline == IF acc.headline = << >>
                        THEN Rocket \o << " " >>
                             \o Upper(SubSeq(p.title, 1, Min(30, Len(p.title))))
                             \o << " " >> \o Rocket
                        ELSE acc.headline
        points == IF acc.bullet_points = << >>
                     THEN << << "P", "r", "e", "m", "i", "u", "m", " " >> \o Lower(p.title),
                             OnlyPrice(p.price),
                             << "G", "e", "t", " ", "i", "t", " ", "n", "o", "w", " ", "b", "e", "f", "o", "r", "e", " ", "i", "t", "'", "s", " ", "g", "o", "n", "e", "!" >> >>
                     ELSE acc.bullet_points
    IN  IF acc.raised THEN [kind |-> "raise"]
        ELSE [kind |-> "script",
              script |-> [headline |-> headline,
                          bullet_points |-> SubSeq(points, 1, Min(8, Len(points))),
                          call_to_action |-> acc.call_to_action]]

\* lines 192-197: the features without their asterisks, the empty ones left out
RECURSIVE CleanFeatures(_)
CleanFeatures(features) ==
    IF features = << >> THEN << >>
    ELSE LET clean == Strip(SelectSeq(Head(features), LAMBDA c : c # "*"))
         IN  (IF clean # << >> THEN << clean >> ELSE << >>)
             \o CleanFeatures(Tail(features))

\* lines 203-205: filled up to three bullet points
RECURSIVE AtLeastThree(_)
AtLeastThree(points) ==
    IF Len(points) >= 3 THEN points
    ELSE AtLeastThree(Append(points, << "P", "r", "e", "m", "i", "u", "m", " ", "q", "u", "a", "l", "i", "t", "y", " ", "y", "o", "u", " ", "c", "a", "n", " ", "t", "r", "u", "s", "t" >>))

\* content_gen.py, _create_template_script, lines 183-216
create_template_script(p) ==
    [headline |-> Rocket \o << " " >> \o Upper(p.title)
                  \o << " ", "-", " ", "G", "A", "M", "E", " ", "C", "H", "A", "N", "G", "E", "R", "!", " " >> \o Rocket,
     bullet_points |->
         AtLeastThree(
             CleanFeatures(SubSeq(p.features, 1, Min(5, Len(p.features))))
             \o (IF p.price # << >> THEN << OnlyPrice(p.price) >> ELSE << >>)),
     call_to_action |-> GetItNow]

\* no call of generate_video_script made yet
NotCalled ==
    [pc |-> "idle", product_data |-> None, primary |-> None, fallback |-> None,
     stages |-> << >>, script |-> None]

\* a response from which a script was read
Parsed(out, p) ==
    /\ generate_text(out).kind = "str"
    /\ parse_ai_response(generate_text(out), p).kind = "script"

\* a plausible slip: the script of the primary model is read but not
\* returned, and the fallback model is asked all the same
AfterPrimaryNoReturn(c, out) ==
    [c EXCEPT !.pc = "fallback", !.primary = out,
              !.stages = Append(@, "fallback"),
              !.script = IF Parsed(out, c.product_data)
                            THEN parse_ai_response(generate_text(out),
                                                   c.product_data).script
                            ELSE None]

\* generate_video_script lines 47-64: the primary model has answered; a
\* script parsed from its text is returned, otherwise (None, or an exception
\* caught at line 57) the fallback model is called
AfterPrimary(c, out) ==
    IF Parsed(out, c.product_data)
        THEN [c EXCEPT !.pc = "returned", !.primary = out,
                       !.script = parse_ai_response(generate_text(out),
                                                    c.product_data).script]
        ELSE [c EXCEPT !.pc = "fallback", !.primary = out,
                       !.stages = Append(@, "fallback")]

\* lines 66-82: the fallback model has answered; a script parsed from its
\* text is returned, otherwise the template script is
AfterFallback(c, out) ==
    IF Parsed(out, c.product_data)
        THEN [c EXCEPT !.pc = "returned", !.fallback = out,
                       !.script = parse_ai_response(generate_text(out),
                                                    c.product_data).script]
        ELSE [c EXCEPT !.pc = "returned", !.fallback = out,
                       !.stages = Append(@, "template"),
                       !.script = create_template_script(c.product_data)]

\* lines 29-51: generate_video_script is called and awaits the primary model
CallGenerateVideoScript(Products) ==
    /\ content_gen.pc \in {"idle", "returned"}
    /\ \E p \in Products :
         content_gen' = [NotCalled EXCEPT !.pc = "primary", !.product_data = p,
                                          !.stages = << "primary" >>]
    /\ UNCHANGED job_vars

\* the await of line 51 ends
PrimaryReturn(Outcomes) ==
    /\ content_gen.pc = "primary"
    /\ \E out \in Outcomes : content_gen' = AfterPrimary(content_gen, out)
    /\ UNCHANGED job_vars

\* the await of line 68 ends
FallbackReturn(Outcomes) ==
    /\ content_gen.pc = "fallback"
    /\ \E out \in Outcomes : content_gen' = AfterFallback(content_gen, out)
    /\ UNCHANGED job_vars

----------------------------------------------------------------------------
(* Inputs *)

MaxBullets == 6      \* longest bullet list of a script handed to the generator
MaxUrls == 9         \* longest image list handed to the generator
ShortUrls == 3       \* image lists up to this length are all explored
MaxClips == 2        \* longest clip list handed to _calculate_actual_duration
MaxRaw == 3          \* longest list `images` the scraper collects

Empty == << >>
X == << "X" >>
Buy == << "B", "u", "y" >>
Plain == << "f", "a", "s", "t" >>
Marked == << "*", "*", "L", ":", " ", "o", "k", "*", "*" >>

BulletList(n) == [i \in 1..n |-> IF i % 2 = 1 THEN Plain ELSE Marked]

\* VideoScript values: headline: str, bullet_points: List[str], call_to_action: str
Scripts ==
    { [headline |-> h, bullet_points |-> BulletList(n), call_to_action |-> c] :
        h \in {Empty, X}, n \in 0..MaxBullets, c \in {Empty, Buy} }

ScenarioScript == [headline |-> X, bullet_points |-> << >>, call_to_action |-> Buy]

UrlList(n) == [i \in 1..n |-> i]

TemplateNames == TemplateKeys \cup {"nonexistent", ""}

GenCall(s, imgs, a, d, t) ==
    [fn |-> "generate_video", script |-> s, images |-> imgs, aspect_ratio |-> a,
     duration |-> d, template_name |-> t]

CtaOnlyScript == [headline |-> Empty, bullet_points |-> << >>, call_to_action |-> Buy]

\* the calls of generate_video explored: every script without images; image
\* lists of 0..ShortUrls URLs and one of MaxUrls URLs, longer than the cap;
\* every template name with the scenario script and three images
Calls ==
    { GenCall(s, << >>, "16:9", d, "modern_bold") :
        s \in Scripts, d \in {10, 15, 20, 30} }
    \cup { GenCall(CtaOnlyScript, UrlList(n), "16:9", 30, "modern_bold") :
        n \in (0..ShortUrls) \cup {MaxUrls} }
    \cup { GenCall(ScenarioScript, imgs, a, d, t) :
        imgs \in {<< >>, UrlList(ShortUrls)}, a \in {"16:9", "9:16"}, d \in {10, 30},
        t \in TemplateNames }

\* clips as _calculate_actual_duration reads them: start and duration
ClipLists ==
    UNION { [1..n -> [start : {0, 2 * Scale, 11 * Scale, 40 * Scale},
                      duration : {Scale, 4 * Scale}]] : n \in 0..MaxClips }

CalcDurations == {1, 10, 14, 15, 16, 20, 30}

\* VideoGenerationRequest values a client submits
Requests ==
    { [url |-> "https://shop.example/p", template |-> r[1], aspect_ratio |-> "16:9",
       duration |-> r[2]] : r \in {<< "modern_bold", 30 >>, << "nonexistent", 10 >>} }

\* the lists `images` _extract_images collects from a page, repeats included
RawImageLists == UNION { [1..n -> 1..3] : n \in 0..MaxRaw }

\* pages whose image URLs are all different
PageImageLists == { UrlList(n) : n \in 0..MaxRaw }

\* ProductData values as the scraper returns them: a title, a price and up
\* to ten features
ScrapedProducts ==
    { [title |-> ti, price |-> << "$", "9" >>, features |-> f] :
        ti \in { << "L", "a", "m", "p" >>, << "P", "r", "o", "d", "u", "c", "t" >> },
        f \in { << >>, << << "*", "*", "f", "a", "s", "t", "*", "*" >> >>, << << "*" >>, << "l", "i", "g", "h", "t" >> >>,
                << << "l", "i", "g", "h", "t" >>, << "c", "h", "e", "a", "p" >>, << " ", "s", "m", "a", "l", "l" >> >> } }

\* what InferenceClient.text_generation does: it raises, or returns a text
TextGenerations ==
    { [kind |-> "raise"] }
    \cup { [kind |-> "text", lines |-> l] :
            l \in { << >>,
                    << << " " >>, << >> >>,
                    << << "H", "e", "a", "d", "l", "i", "n", "e", ":", " ", "H", "i" >>, << "-", " ", "f", "a", "s", "t", " ", "a", "n", "d", " ", "l", "i", "g", "h", "t" >>,
                       << "C", "A", "L", "L", " ", "T", "O", " ", "A", "C", "T", "I", "O", "N", ":", " ", "G", "o" >> >>,
                    << << >>, << " ", "G", "r", "e", "a", "t", " ", "l", "a", "m", "p" >>, << "*", " ", "b", "r", "i", "g", "h", "t", " ", "l", "i", "g", "h", "t" >>,
                       << "S", "h", "o", "p", " ", "n", "o", "w", " " >> >>,
                    << << "*", " ", "b", "r", "i", "g", "h", "t", " ", "l", "i", "g", "h", "t" >> >>,
                    << << "-", " ", "o", "k" >>, << "c", "t", "a", ":", " ", "G", "o" >> >> } }

\* scripts as ContentGenerator.generate_video_script returns them: the
\* headline is never empty and there is at least one bullet
GeneratedScripts ==
    { [headline |-> X, bullet_points |-> BulletList(1), call_to_action |-> Buy] }

----------------------------------------------------------------------------
(* Specifications *)

Init ==
    /\ video_status = EmptyTable
    /\ status_file = NoFile
    /\ pc = [j \in Jobs |-> "idle"]
    /\ task = [j \in Jobs |-> None]
    /\ raw_images = [j \in Jobs |-> << >>]
    /\ product_data = [j \in Jobs |-> None]
    /\ call = [j \in Jobs |-> None]
    /\ gen_pc = [j \in Jobs |-> "idle"]
    /\ template = [j \in Jobs |-> None]
    /\ video_size = [j \in Jobs |-> << 1920, 1080 >>]
    /\ fetched = [j \in Jobs |-> << >>]
    /\ image_clips = [j \in Jobs |-> << >>]
    /\ slideshow = [j \in Jobs |-> None]
    /\ background_clip = [j \in Jobs |-> None]
    /\ text_lines = [j \in Jobs |-> << >>]
    /\ text_clips = [j \in Jobs |-> << >>]
    /\ actual_duration = [j \in Jobs |-> 0]
    /\ result = [j \in Jobs |-> None]
    /\ files = {}
    /\ reply = None
    /\ content_gen = NotCalled

\* the generator called directly, one call at a time
Next ==
    \/ CallGenerateVideo("j1", Calls)
    \/ ImageReturn("j1")
    \/ CallCalculateActualDuration("j1", ClipLists, CalcDurations)

Spec == Init /\ [][Next]_vars

\* a step of the background task of job j: the event loop starts the queued
\* task and resumes it when the call it awaits has returned or raised
TaskStep(j, Raws, Scr) ==
    \/ BackgroundStart(j)
    \/ ScrapeReturn(j, Raws)
    \/ ScriptReturn(j, Scr)
    \/ ImageReturn(j)

\* one job from its submission to its terminal record, over every list of
\* image URLs the scraper may collect
PipeNext ==
    \E j \in {"j1"} :
        \/ Submit(j, Requests)
        \/ TaskStep(j, RawImageLists, GeneratedScripts)

PipeSpec == Init /\ [][PipeNext]_vars

\* one job over pages without repeated URLs; the event loop runs a queued
\* task, and the scraper (timeout 30 s) and the image fetches (timeout 10 s)
\* return or raise, so a task that can take a step takes it
FairNext ==
    \E j \in {"j1"} :
        \/ Submit(j, Requests)
        \/ TaskStep(j, PageImageLists, GeneratedScripts)

FairPipeSpec ==
    /\ Init
    /\ [][FairNext]_vars
    /\ WF_vars(\E j \in {"j1"} : TaskStep(j, PageImageLists, GeneratedScripts))

\* pages with no image or one
ServerImageLists == { UrlList(n) : n \in 0..1 }

\* the paths clients ask for: the id of the job, an id no job has, templates
Paths ==
    { << id >> : id \in {"j1", "j2", "templates"} }
    \cup { << id, "download" >> : id \in {"j1", "j2"} }

\* the server with one job: its background task, status and download
\* requests at any moment, and restarts of the process at any moment
ServerNext ==
    \/ Submit("j1", Requests)
    \/ TaskStep("j1", ServerImageLists, GeneratedScripts)
    \/ HttpGet(Paths)
    \/ Restart

ServerSpec == Init /\ [][ServerNext]_vars

\* the request of each of the two jobs: the same template, one landscape
\* and one portrait
TwoJobsRequests(j) ==
    { [url |-> "https://shop.example/p", template |-> "modern_bold",
       aspect_ratio |-> IF j = "j1" THEN "16:9" ELSE "9:16", duration |-> 30] }

\* two jobs at once, each page with one image, and status and download
\* requests
TwoJobsNext ==
    \/ \E j \in Jobs : Submit(j, TwoJobsRequests(j))
    \/ \E j \in Jobs : TaskStep(j, {UrlList(1)}, GeneratedScripts)
    \/ HttpGet({ << "j1" >>, << "j1", "download" >> })

TwoJobsSpec == Init /\ [][TwoJobsNext]_vars

\* calls of generate_video_script, one after another, over what the two
\* models may answer
ScriptNext ==
    \/ CallGenerateVideoScript(ScrapedProducts)
    \/ PrimaryReturn(TextGenerations)
    \/ FallbackReturn(TextGenerations)

ScriptSpec == Init /\ [][ScriptNext]_vars

----------------------------------------------------------------------------
(* Properties of the generator called directly (Spec) *)

Generated(j) == gen_pc[j] = "done" /\ call[j].fn = "generate_video"
Calculated(j) == gen_pc[j] = "done" /\ call[j].fn = "_calculate_actual_duration"
Rendered(j) == Generated(j) /\ slideshow[j].kind # "raise"

FallbackKinds == {"gradient", "solid", "fixed_solid"}

Roles(lines) == [i \in 1..Len(lines) |-> lines[i].role]

\* C1: for a requested duration of at least 15 s and any clip list,
\* _calculate_actual_duration returns a value in [15, requested]; for a
\* requested duration below 15 s and no clip it returns the requested duration.
C1_ActualDurationInInterval ==
    \A j \in Jobs :
        Calculated(j) =>
            LET d == call[j].max_duration
                a == actual_duration[j]
            IN  /\ d >= 15 => (15 * Scale <= a /\ a <= d * Scale)
                /\ (d < 15 /\ text_clips[j] = << >>) => a = d * Scale

\* a call whose result lies strictly inside the interval: the clips decide it
C1_Witness ==
    \E j \in Jobs :
        /\ Calculated(j)
        /\ call[j].max_duration >= 15
        /\ text_clips[j] # << >>
        /\ actual_duration[j] > 15 * Scale
        /\ actual_duration[j] < call[j].max_duration * Scale

\* C2: for every request, also one below 15 s, the total duration computed by
\* generate_video never exceeds the requested duration and is not below the
\* 15 s floor where the request allows it.
C2_TotalDurationWithinRequest ==
    \A j \in Jobs :
        Rendered(j) =>
            /\ actual_duration[j] <= call[j].duration * Scale
            /\ actual_duration[j] >= Min(15, call[j].duration) * Scale

\* C3: a template name that is no key of the catalog resolves to the
\* high_visibility template, a key resolves to its own template, and the
\* lookup never raises.
C3_TemplateFallback ==
    \A j \in Jobs :
        (gen_pc[j] # "idle" /\ call[j].fn = "generate_video") =>
            LET n == call[j].template_name IN
            /\ n \notin TemplateKeys => template[j] = Catalog["high_visibility"]
            /\ n \in TemplateKeys => (template[j] = Catalog[n] /\ template[j].key = n)

C3_Witness ==
    \E j \in Jobs :
        /\ Generated(j)
        /\ call[j].template_name = "nonexistent"
        /\ template[j].name = "High Visibility"

\* C4 as stated: a script without bullets gives exactly the two lines
\* [headline, cta], whatever its headline and call to action are.
C4_TwoLinesWhateverHeadline ==
    \A j \in Jobs :
        (Rendered(j) /\ call[j].script.bullet_points = << >>) =>
            Roles(text_lines[j]) = << "headline", "cta" >>

\* C4 amended: a script without bullets gives the two lines [headline, cta]
\* when its headline is not empty, and the single line [cta] when it is.
C4_TwoLinesWithHeadline ==
    \A j \in Jobs :
        (Rendered(j) /\ call[j].script.bullet_points = << >>) =>
            /\ call[j].script.headline # << >> =>
                   Roles(text_lines[j]) = << "headline", "cta" >>
            /\ call[j].script.headline = << >> =>
                   Roles(text_lines[j]) = << "cta" >>

C4_Witness ==
    \E j \in Jobs :
        /\ Rendered(j)
        /\ call[j].script.bullet_points = << >>
        /\ call[j].script.headline = X
        /\ call[j].script.call_to_action = Empty
        /\ Len(text_lines[j]) = 2

C6_EqualSlicesOfPreparedFrames ==
    \A j \in Jobs :
        (Rendered(j) /\ Len(image_clips[j]) >= 1) =>
            /\ \A k \in 1..Len(image_clips[j]) :
                  image_clips[j][k].duration * Len(image_clips[j])
                      = call[j].duration * Scale
            /\ slideshow[j].kind \in {"image", "slideshow"} =>
                  slideshow[j].duration = call[j].duration * Scale

Indices(clips) == [k \in 1..Len(clips) |-> clips[k].index]

\* the 0-based positions of the awaited images that satisfy P, in order
RECURSIVE Positions(_, _)
Positions(outcomes, wanted) ==
    IF outcomes = << >> THEN << >>
    ELSE Positions(Take(outcomes, Len(outcomes) - 1), wanted)
         \o (IF outcomes[Len(outcomes)] \in wanted THEN << Len(outcomes) - 1 >> ELSE << >>)

C9_FallbackClip ==
    \A j \in Jobs :
        Generated(j) =>
            /\ slideshow[j].kind \in FallbackKinds \cup {"image", "slideshow"}
            /\ image_clips[j] = << >> => slideshow[j].kind \in FallbackKinds
            /\ slideshow[j].kind \in FallbackKinds =>
                  /\ slideshow[j].duration = call[j].duration * Scale
                  /\ slideshow[j].duration > 0
                  /\ slideshow[j].size = video_size[j]
            /\ slideshow[j].kind \in {"image", "slideshow"} => image_clips[j] # << >>

\* every image failed and the gradient file could not be made: a solid clip
C9_Witness ==
    \E j \in Jobs :
        /\ Generated(j)
        /\ Len(fetched[j]) = 3
        /\ image_clips[j] = << >>
        /\ slideshow[j].kind = "fixed_solid"
        /\ slideshow[j].duration = 30 * Scale

\* the assembly of two clips raised and the fallback was returned
C9_AssemblyRaised ==
    \E j \in Jobs :
        /\ Generated(j)
        /\ Len(image_clips[j]) >= 2
        /\ slideshow[j].kind \in FallbackKinds

\* C22 as stated: the lines are the headline, then the first min(5, n)
\* bullets in order, then the call to action; there are between 2 and 7 lines
\* and the last has role cta.
C22_HeadlineBulletsCta ==
    \A j \in Jobs :
        Rendered(j) =>
            LET lines == text_lines[j]
                nb == Min(5, Len(call[j].script.bullet_points))
            IN  /\ Len(lines) = nb + 2
                /\ Len(lines) \in 2..7
                /\ lines[1].role = "headline"
                /\ \A i \in 1..nb : lines[1 + i].role = "bullet"
                /\ lines[Len(lines)].role = "cta"

\* C22 amended: the lines are the headline when it is not empty, then the
\* first min(5, n) bullets in order, one line per bullet whatever its content,
\* then the call to action; there are between 1 and 7 lines, at least 2 when
\* the headline is not empty, and the last has role cta.
C22_OptionalHeadlineBulletsCta ==
    \A j \in Jobs :
        Rendered(j) =>
            LET lines == text_lines[j]
                script == call[j].script
                h == IF script.headline # << >> THEN 1 ELSE 0
                nb == Min(5, Len(script.bullet_points))
            IN  /\ Len(lines) = h + nb + 1
                /\ Len(lines) \in 1..7
                /\ h = 1 => (Len(lines) >= 2 /\
                             lines[1] = [role |-> "headline", text |-> script.headline])
                /\ \A i \in 1..nb :
                      /\ lines[h + i].role = "bullet"
                      /\ lines[h + i].text = CleanPoint(script.bullet_points[i])
                /\ lines[Len(lines)] = [role |-> "cta", text |-> script.call_to_action]

\* six bullets and no headline: five bullet lines and the call to action
C22_Witness ==
    \E j \in Jobs :
        /\ Rendered(j)
        /\ Len(call[j].script.bullet_points) = 6
        /\ call[j].script.headline = Empty
        /\ Roles(text_lines[j]) = << "bullet", "bullet", "bullet", "bullet", "bullet", "cta" >>

\* C23: every overlay clip handed to the renderer starts at 0 or later, lasts
\* more than 0 and ends no later than the actual duration, which is the value
\* of _calculate_actual_duration for those clips; also when lines were dropped.
C23_ClipsWithinActualDuration ==
    \A j \in Jobs :
        Rendered(j) =>
            /\ actual_duration[j] = CalculateActualDuration(text_clips[j], call[j].duration)
            /\ \A k \in 1..Len(text_clips[j]) :
                  /\ text_clips[j][k].start >= 0
                  /\ text_clips[j][k].duration > 0
                  /\ text_clips[j][k].start + text_clips[j][k].duration
                        <= actual_duration[j]

\* seven lines in thirty seconds, the first dropped: the last clip ends after
\* the 15 s floor and before the actual duration
C23_Witness ==
    \E j \in Jobs :
        /\ Rendered(j)
        /\ Len(text_lines[j]) = 7
        /\ call[j].duration = 30
        /\ Len(text_clips[j]) = 6
        /\ text_clips[j][1].index = 1
        /\ text_clips[j][6].start + text_clips[j][6].duration > 15 * Scale
        /\ text_clips[j][6].start + text_clips[j][6].duration < actual_duration[j]

\* C24: the background clip built by the slideshow step is at least as long
\* as the actual duration, so after the trim the background spans exactly
\* [0, actual duration] of its own material.
C24_BackgroundCoversActualDuration ==
    \A j \in Jobs :
        Rendered(j) =>
            /\ background_clip[j].duration = actual_duration[j]
            /\ slideshow[j].duration >= actual_duration[j]

\* C25: the vertical position of a line depends on its role: headline at 15%
\* of the canvas height, call to action at 75%, bullet at 35% plus 80 pixels
\* per index.
C25_PlacementByRole ==
    \A j \in Jobs :
        Rendered(j) =>
            \A k \in 1..Len(text_clips[j]) :
                LET c == text_clips[j][k]
                    height == video_size[j][2]
                IN  /\ c.role = "headline" => c.y = (height * 15) \div 100
                    /\ c.role = "cta" => c.y = (height * 75) \div 100
                    /\ c.role = "bullet" =>
                          c.y = (height * 35) \div 100 + c.index * BulletSpacing

----------------------------------------------------------------------------
(* Properties of a job (PipeSpec, FairPipeSpec) *)

Urls(clips) == [k \in 1..Len(clips) |-> clips[k].url]

FirstIndex(s, u) == CHOOSE i \in 1..Len(s) : s[i] = u /\ \A k \in 1..(i - 1) : s[k] # u

\* C8: whatever list of image URLs the scraper collected, repeats included,
\* the URLs behind the prepared frames hold no duplicate and stand in the
\* order of their first occurrence in that list.
C8_FramesDuplicateFree ==
    \A j \in Jobs :
        pc[j] \in {"rendering", "done"} =>
            LET urls == Urls(image_clips[j]) IN
            /\ \A a, b \in 1..Len(urls) : a # b => urls[a] # urls[b]
            /\ \A a \in 1..Len(urls) : \E i \in 1..Len(raw_images[j]) : raw_images[j][i] = urls[a]
            /\ \A a, b \in 1..Len(urls) :
                  a < b => FirstIndex(raw_images[j], urls[a]) < FirstIndex(raw_images[j], urls[b])

\* the page repeats a URL before a new one and both give a frame
C8_Witness ==
    \E j \in Jobs :
        /\ pc[j] = "done"
        /\ raw_images[j] = << 2, 2, 1 >>
        /\ Urls(image_clips[j]) = << 2, 1 >>

\* the scrape returned, every image awaited failed to fetch, and the encoder
\* did not raise
AllFetchesFailed(j) ==
    /\ product_data[j] # None
    /\ \A k \in 1..Len(fetched[j]) : fetched[j][k] = "fetch_failed"
    /\ ~(result[j].kind = "raised" /\ result[j].error = "encode")

CompletedRecord(j) ==
    /\ j \in DOMAIN video_status
    /\ video_status[j].status = "completed"
    /\ video_status[j].progress = 100
    /\ "video_path" \in DOMAIN video_status[j]
    /\ video_status[j].video_path = VideoPath(j)

\* C10: a job whose scrape and script steps succeed, whose image fetches all
\* fail and whose encoding succeeds ends with the completed record (progress
\* 100, a video path), and its status is never failed.
C10_AllFetchesFailStillCompletes ==
    \A j \in {"j1"} :
        /\ (pc[j] = "queued") ~> (pc[j] = "done")
        /\ [](pc[j] = "done" /\ AllFetchesFailed(j) => CompletedRecord(j))
        /\ []((j \in DOMAIN video_status /\ video_status[j].status = "failed")
                 => ~AllFetchesFailed(j))

\* three images, none fetched, and the job completed
C10_Witness ==
    \E j \in Jobs :
        /\ pc[j] = "done"
        /\ Len(fetched[j]) = 3
        /\ AllFetchesFailed(j)
        /\ slideshow[j].kind \in FallbackKinds
        /\ CompletedRecord(j)

Terminal == {"completed", "failed"}

\* C27: when every external call returns or raises and the process does not
\* die, every submitted job reaches a terminal status, completed or failed;
\* the task never ends with the record still generating.
C27_EveryJobTerminates ==
    \A j \in {"j1"} :
        /\ (j \in DOMAIN video_status) ~>
               (j \in DOMAIN video_status /\ video_status[j].status \in Terminal)
        /\ [](pc[j] = "done" => video_status[j].status \in Terminal)

\* three images fetched and the encoder raised: the job ended failed
C27_Witness ==
    \E j \in Jobs :
        /\ pc[j] = "done"
        /\ Len(image_clips[j]) = 3
        /\ result[j].kind = "raised"
        /\ video_status[j].status = "failed"

\* the progress a reader finds while the task stands at position p
ProgressAt(p) ==
    CASE p = "queued" -> 0
      [] p = "scraping" -> 10
      [] p = "scripting" -> 30
      [] p = "rendering" -> 60

----------------------------------------------------------------------------
(* Properties of the server (ServerSpec) *)

Replied(endpoint) == "endpoint" \in DOMAIN reply /\ reply.endpoint = endpoint

\* the job ended because its scrape step or its encode step raised
ScrapeRaised(j) == pc[j] = "done" /\ product_data[j] = None
EncodeRaised(j) ==
    pc[j] = "done" /\ result[j].kind = "raised" /\ result[j].error = "encode"

\* C11: every record of the job table has a status among generating,
\* completed and failed and a progress in 0..100, and it has a non-empty
\* video_path exactly when its status is completed.
C11_RecordsWellFormed ==
    \A id \in DOMAIN video_status :
        /\ video_status[id].status \in {"generating", "completed", "failed"}
        /\ video_status[id].progress \in 0..100
        /\ (Get(video_status[id], "video_path", << >>) # << >>)
              <=> (video_status[id].status = "completed")

\* the encoder raised: a partial output file is on disk and the record is
\* failed, without a video_path
C11_Witness ==
    /\ EncodeRaised("j1")
    /\ Exists(files, VideoPath("j1"))
    /\ video_status["j1"].status = "failed"
    /\ "video_path" \notin DOMAIN video_status["j1"]

\* C12: download_video serves a file only for a job whose record is
\* completed, and then the file of that record; for a job that is generating
\* or failed and for an unknown id it answers with an error and no file.
C12_DownloadOnlyWhenCompleted ==
    Replied("download_video") =>
        LET id == reply.video_id IN
        /\ reply.code \in {200, 400, 404}
        /\ reply.code = 200 =>
              /\ id \in DOMAIN video_status
              /\ video_status[id].status = "completed"
              /\ reply.file = video_status[id].video_path
              /\ Exists(files, reply.file)
        /\ (id \notin DOMAIN video_status \/ video_status[id].status # "completed") =>
              /\ reply.code \in {400, 404}
              /\ "file" \notin DOMAIN reply

\* the download is asked for while the job renders, and refused
C12_Witness ==
    /\ Replied("download_video")
    /\ reply.video_id = "j1"
    /\ pc["j1"] = "rendering"
    /\ reply.code = 400

\* the download of a completed job serves its file
C12_Served ==
    /\ Replied("download_video")
    /\ reply.code = 200
    /\ reply.file = VideoPath("j1")

\* C13: once the scrape step or the encode step of a job has raised, its
\* record is failed with a non-empty message, in every later state, and no
\* download of that job serves a file.
C13_RaisedJobFailed ==
    \A j \in Jobs :
        (ScrapeRaised(j) \/ EncodeRaised(j)) =>
            /\ j \in DOMAIN video_status
            /\ video_status[j].status = "failed"
            /\ Get(video_status[j], "message", << >>) # << >>
            /\ (Replied("download_video") /\ reply.video_id = j) => reply.code # 200

\* the encoder raised and left a partial file; the download is refused
C13_Witness ==
    /\ EncodeRaised("j1")
    /\ Exists(files, VideoPath("j1"))
    /\ Replied("download_video")
    /\ reply.video_id = "j1"
    /\ reply.code = 400

\* C14: the status file is written on every mutation of the table: after the
\* creation of a record, after each progress update and after the completed
\* and failed updates, the persisted mapping equals the table in memory.
C14_FileEqualsTable ==
    load_video_status(status_file) = video_status

C16_LostJobStaysAsSaved ==
    /\ [](\A j \in Jobs :
            pc[j] = "lost" =>
                /\ j \in DOMAIN video_status
                /\ video_status[j] = load_video_status(status_file)[j]
                /\ video_status[j].status = "generating")
    /\ [][\A j \in Jobs :
            /\ pc[j] = "lost" => (pc'[j] = "lost" /\ video_status'[j] = video_status[j])
            /\ (pc[j] \in InFlight /\ pc'[j] # pc[j]) =>
                   pc'[j] \in (InFlight \ {"queued"}) \cup {"done", "lost"}]_vars

\* the process died after the scrape of the job had returned: the record
\* shows the progress 0 saved at submission, not the 30 held in memory
C16_Witness ==
    /\ pc["j1"] = "lost"
    /\ product_data["j1"] # None
    /\ video_status["j1"].status = "generating"
    /\ video_status["j1"].progress = 0

\* C17: the step that takes a job out of the idle position is the submit
\* handler: it creates the record (generating, progress 0), saves the table
\* and answers with the job id and status generating, and no step of the
\* job's task has been taken by then.
C17_SubmitReturnsBeforeTask ==
    /\ [](\A j \in Jobs :
            pc[j] = "queued" =>
                /\ video_status[j].status = "generating"
                /\ video_status[j].progress = 0
                /\ load_video_status(status_file)[j] = video_status[j]
                /\ product_data[j] = None /\ call[j] = None /\ gen_pc[j] = "idle")
    /\ [][\A j \in Jobs :
            (pc[j] = "idle" /\ pc'[j] # "idle") =>
                /\ pc'[j] = "queued"
                /\ "endpoint" \in DOMAIN reply'
                /\ reply'.endpoint = "generate_video"
                /\ reply'.video_id = j
                /\ reply'.status = "generating"]_vars

\* the submit has answered and the task has not started
C17_Witness ==
    /\ Replied("generate_video")
    /\ reply.video_id = "j1"
    /\ pc["j1"] = "queued"
    /\ video_status["j1"].progress = 0

\* C19: a request for the path /templates is handled by get_templates and
\* answered, without error, with one {name, description, theme} entry per
\* built-in template.
C19_TemplatesListed ==
    (reply # None /\ reply.path = << "templates" >>) =>
        /\ reply.endpoint = "get_templates"
        /\ reply.code = 200
        /\ reply.templates = list_templates

\* C20: when a job has reached a terminal state, no processed product image,
\* text image or gradient image made for its render is left on disk.
C20_AssetsDeleted ==
    \A j \in Jobs :
        pc[j] = "done" =>
            {f \in files : f.kind \in {"product", "text", "gradient"}} = {}

----------------------------------------------------------------------------
(* Properties of two jobs at once (TwoJobsSpec) *)

\* a record as a reader must find it
Whole(rec) ==
    /\ rec.status = "generating" =>
          /\ rec.progress \in {0, 10, 30, 60}
          /\ "video_path" \notin DOMAIN rec
    /\ rec.status = "completed" =>
          /\ rec.progress = 100
          /\ Get(rec, "video_path", << >>) # << >>
    /\ rec.status = "failed" =>
          /\ rec.progress = 0
          /\ Get(rec, "message", << >>) # << >>

\* C18: at every point where a status request can be served, each record is
\* whole (completed comes with progress 100 and a video_path, failed with
\* progress 0 and a message) and the response shows the record as it is; a
\* record, once created, is changed only by a step of its own job's task,
\* which changes no other record, and never after the task has ended.
C18_WholeRecordsOneWriter ==
    /\ [](\A id \in DOMAIN video_status : Whole(video_status[id]))
    /\ []((Replied("get_video_status") /\ reply.code = 200) =>
            /\ reply.status = video_status[reply.video_id].status
            /\ reply.progress = video_status[reply.video_id].progress
            /\ reply.video_path = Get(video_status[reply.video_id], "video_path", << >>))
    /\ [][\A id \in DOMAIN video_status :
            /\ id \in DOMAIN video_status'
            /\ video_status'[id] # video_status[id] =>
                  /\ pc[id] \in InFlight
                  /\ pc'[id] # pc[id]
                  /\ \A k \in DOMAIN video_status \ {id} :
                        video_status'[k] = video_status[k] /\ pc'[k] = pc[k]]_vars

\* a status request answered while both tasks are in flight, at different
\* steps
C18_Witness ==
    /\ pc["j1"] = "scripting"
    /\ pc["j2"] = "rendering"
    /\ video_status["j2"].progress = 60
    /\ Replied("get_video_status")
    /\ reply.video_id = "j1"
    /\ reply.progress = 30

\* C28: once a record is completed or failed, no step changes it: not a step
\* of its own task or of another job's, not a submission, a status request
\* or a download.
C28_TerminalAbsorbing ==
    [][\A id \in DOMAIN video_status :
          video_status[id].status \in Terminal =>
              /\ id \in DOMAIN video_status'
              /\ video_status'[id] = video_status[id]]_vars

\* one job has failed, the other was submitted after that and completed, and
\* a download of the failed job has just been refused
C28_Witness ==
    /\ pc["j1"] = "done"
    /\ pc["j2"] = "done"
    /\ video_status["j1"].status = "failed"
    /\ video_status["j2"].status = "completed"
    /\ Replied("download_video")
    /\ reply.code = 400

\* C21: whatever the interleaving of two jobs, each job's canvas size, its
\* background clip (a gradient fallback image included) and its overlay clips
\* are those its own request gives: what the other job does changes nothing.
C21_JobsShareNoRenderState ==
    \A j \in Jobs :
        (pc[j] \in {"rendering", "done"} /\ gen_pc[j] # "idle") =>
            /\ call[j].aspect_ratio = task[j].aspect_ratio
            /\ video_size[j] = VideoSize(task[j].aspect_ratio)
            /\ template[j] = get_template(task[j].template_name)
            /\ \A k \in 1..Len(image_clips[j]) :
                  image_clips[j][k] =
                      ImageClip(image_clips[j][k].index, image_clips[j][k].url,
                                task[j].duration, Len(SlideImages(call[j].images)))
            /\ gen_pc[j] = "done" =>
                  /\ slideshow[j].size = video_size[j]
                  /\ background_clip[j].size = video_size[j]
                  /\ slideshow[j].kind \in FallbackKinds =>
                        slideshow[j].duration = task[j].duration * Scale
                  /\ text_lines[j] = TextLines(call[j].script)
                  /\ \A k \in 1..Len(text_clips[j]) :
                        text_clips[j][k] =
                            TextClip(text_lines[j], text_clips[j][k].index,
                                     task[j].duration, template[j], video_size[j])

\* both jobs fell back to the gradient of the same template, the portrait one
\* last: each clip has its own job's size
C21_Witness ==
    /\ pc["j1"] = "done"
    /\ pc["j2"] = "done"
    /\ slideshow["j1"].kind = "gradient"
    /\ slideshow["j2"].kind = "gradient"
    /\ slideshow["j1"].size = << 1920, 1080 >>
    /\ slideshow["j2"].size = << 1080, 1920 >>
    /\ GradientFile(template["j2"], << 1080, 1920 >>) \in files

----------------------------------------------------------------------------
(* Properties of the script generation (ScriptSpec) *)

\* C30: generate_video_script raises nothing and returns a script, and the
\* stages come in strict order: the fallback model is asked only after the
\* primary model gave nothing that parsed, the template script is used only
\* after the fallback model gave nothing that parsed either, and a stage
\* whose text parsed is the last one.
C30_StrictFallbackOrder ==
    LET c == content_gen
        p == c.product_data
        asked == {c.stages[i] : i \in 1..Len(c.stages)}
    IN  /\ c.pc \in {"idle", "primary", "fallback", "returned"}
        /\ c.pc = "idle" <=> c.stages = << >>
        /\ c.pc = "primary" => c.stages = << "primary" >>
        /\ c.pc = "fallback" => c.stages = << "primary", "fallback" >>
        /\ "fallback" \in asked =>
              /\ c.primary.kind \in {"raise", "text"}
              /\ ~Parsed(c.primary, p)
        /\ "template" \in asked =>
              /\ c.pc = "returned"
              /\ c.stages = << "primary", "fallback", "template" >>
              /\ c.fallback.kind \in {"raise", "text"}
              /\ ~Parsed(c.fallback, p)
        /\ c.pc = "returned" =>
              /\ c.script # None
              /\ c.script.headline # << >>
              /\ Len(c.script.bullet_points) \in 1..8
              /\ c.primary.kind \in {"raise", "text"}
              /\ IF Parsed(c.primary, p)
                    THEN /\ c.stages = << "primary" >>
                         /\ c.fallback = None
                         /\ c.script =
                              parse_ai_response(generate_text(c.primary), p).script
                    ELSE IF Parsed(c.fallback, p)
                    THEN /\ c.stages = << "primary", "fallback" >>
                         /\ c.script =
                              parse_ai_response(generate_text(c.fallback), p).script
                    ELSE /\ c.stages = << "primary", "fallback", "template" >>
                         /\ c.script = create_template_script(p)

\* the primary model raised, the fallback model answered with a text that
\* parsed: its script is returned and the template script is not used
C30_Witness ==
    /\ content_gen.pc = "returned"
    /\ content_gen.primary.kind = "raise"
    /\ content_gen.fallback.kind = "text"
    /\ content_gen.stages = << "primary", "fallback" >>
    /\ content_gen.script.headline = << "H", "i" >>
    /\ Len(content_gen.script.bullet_points) = 1

====
